---- MODULE Spec2Model ----
(***************************************************************************)
(* Caption worker (src/app.py): the /enqueue handler, the claim protocol   *)
(* against the job ledger, the bounded-concurrency gate and the pipeline   *)
(* task that drives a claimed job to a terminal ledger status.             *)
(*                                                                         *)
(* The job ledger (table transcription_jobs) is an external record store.  *)
(* Each call to it is atomic: it either takes effect and returns, or it    *)
(* raises and has no effect.  The stage calls (download, ffmpeg, Whisper,  *)
(* storage upload) are external too: each terminates with success or with  *)
(* an exception.                                                           *)
(***************************************************************************)
EXTENDS Naturals, FiniteSets, Sequences, TLC

\* ---------------------------------------------------------------- bounds
\* Number of /enqueue requests the environment sends.
MaxReqs == 2

\* Values of MAX_CONCURRENT_JOBS the environment configures.
GateSizes == {1, 2}

Reqs == 1..MaxReqs

\* RETRY_COUNT and RETRY_BASE_MS (milliseconds), at their defaults.
RETRY_COUNT == 3
RETRY_BASE_MS == 500

\* Job ids that pass is_uuid; "malformed" fails UUID_RE, "missing" is an
\* absent or empty job_id.
JobIds == {"a", "b"}
JobIdInputs == JobIds \cup {"malformed", "missing"}

\* content_type of the body: absent, a string, or another JSON value.
ContentTypes == {"absent", "str", "nonstr"}

\* Ledger status of a job id: "absent" is no record; "archived" stands for any
\* status other than the four the worker knows. Records are created outside
\* the worker: at the start job "a" is queued and job "b" is in any of the
\* initial statuses (the job ids are interchangeable).
InitStatuses == {"absent", "queued", "archived"}
Terminal == {"completed", "failed"}
Statuses == InitStatuses \cup {"processing"} \cup Terminal

VARIABLES
    MAX_CONCURRENT_JOBS, \* gate size N, read from the environment at start
    AUDIO_ONLY,          \* whether the audio extraction stage is enabled
    status,              \* ledger: job id -> status
    sem,                 \* _CONCURRENCY: number of free slots
    arrived,             \* number of requests received so far
    rpc,                 \* request -> position in enqueue
    rjob,                \* request -> job_id it passes to claim_job
    entry,               \* request -> ledger status of that job at the call
    job,                 \* request -> result of claim_job: "none", "row", "None"
    resp,                \* request -> response sent
    won,                 \* request -> its conditional update changed a row
    ledgerOps,           \* request -> ledger calls made by the handler
    tpc,                 \* request -> position of the pipeline thread it started
    escaped,             \* request -> an exception left process_job_async
    run,                 \* request -> locals and log of its pipeline run
    disk,                \* request -> temporary files of its run on disk
    leaked,              \* temporary files that ended runs left on disk
    error,               \* ledger: job id -> error column
    outputs,             \* ledger: job id -> outputs column
    fetch                \* a call of download_signed_url taken on its own

vars == <<MAX_CONCURRENT_JOBS, AUDIO_ONLY, status, sem, arrived, rpc,
          rjob, entry, job, resp, won, ledgerOps, tpc, escaped, run, disk,
          leaked, error, outputs, fetch>>

reqVars == <<rpc, rjob, entry, job, resp, won, ledgerOps, arrived>>
cfgVars == <<MAX_CONCURRENT_JOBS, AUDIO_ONLY>>
\* What a step of enqueue leaves alone besides the request and the ledger.
handlerFrame == <<cfgVars, fetch, run, disk, leaked, error, outputs>>

Responses == {"none", "401", "400", "500", "202 claimed:true", "202 claimed:false"}

\* Positions of a pipeline thread that hold a gate slot.
Holding == {"mark", "download", "extract", "whisper", "upload", "finalize",
            "failwrite", "unexpected", "exit"}
TaskPcs == {"none", "waiting", "done"} \cup Holding

TypeOK ==
    /\ MAX_CONCURRENT_JOBS \in GateSizes
    /\ AUDIO_ONLY \in BOOLEAN
    /\ status \in [JobIds -> Statuses]
    /\ sem \in 0..MAX_CONCURRENT_JOBS
    /\ arrived \in 0..MaxReqs
    /\ rpc \in [Reqs -> {"idle", "update", "reread", "returned", "done"}]
    /\ rjob \in [Reqs -> JobIds \cup {"none"}]
    /\ entry \in [Reqs -> Statuses \cup {"none"}]
    /\ job \in [Reqs -> {"none", "row", "None"}]
    /\ resp \in [Reqs -> Responses]
    /\ won \in [Reqs -> BOOLEAN]
    /\ ledgerOps \in [Reqs -> 0..2]
    /\ tpc \in [Reqs -> TaskPcs]
    /\ escaped \in [Reqs -> BOOLEAN]
    /\ \A r \in Reqs : disk[r] \subseteq {"mp4", "wav"}
    /\ leaked \subseteq {"mp4", "wav"}
    /\ \A r \in Reqs : run[r].media_path \in BOOLEAN
                         /\ run[r].audio_path \in BOOLEAN
    /\ \A j \in JobIds : error[j].len \in Nat /\ outputs[j].vtt \in BOOLEAN

\* The locals of process_job_async at the start of a run, and its log.
\* failed: the stage whose call raised; served: the bytes the server streamed
\* in the attempt the download returned from; ran: the stages called, in
\* order; writes: the outcome of each call of update_job, in order.
RunIdle ==
    [failed |-> "none", media_path |-> FALSE, audio_path |-> FALSE,
     download_bytes |-> 0, served |-> 0, ran |-> <<>>, writes |-> <<>>]

\* An empty error column, and an empty outputs column; download_bytes is
\* outputs["metrics"]["download_bytes"].
NoError == [prefix |-> "", len |-> 0]
NoOutputs == [vtt |-> FALSE, download_bytes |-> 0]

InitWorker ==
    /\ MAX_CONCURRENT_JOBS \in GateSizes
    /\ AUDIO_ONLY \in BOOLEAN
    /\ status \in {s \in [JobIds -> InitStatuses] : s["a"] = "queued"}
    /\ sem = MAX_CONCURRENT_JOBS
    /\ arrived = 0
    /\ rpc = [r \in Reqs |-> "idle"]
    /\ rjob = [r \in Reqs |-> "none"]
    /\ entry = [r \in Reqs |-> "none"]
    /\ job = [r \in Reqs |-> "none"]
    /\ resp = [r \in Reqs |-> "none"]
    /\ won = [r \in Reqs |-> FALSE]
    /\ ledgerOps = [r \in Reqs |-> 0]
    /\ tpc = [r \in Reqs |-> "none"]
    /\ escaped = [r \in Reqs |-> FALSE]
    /\ run = [r \in Reqs |-> RunIdle]
    /\ disk = [r \in Reqs |-> {}]
    /\ leaked = {}
    /\ error = [j \in JobIds |-> NoError]
    /\ outputs = [j \in JobIds |-> NoOutputs]

\* ------------------------------------------------------------- helpers
is_uuid(s) == s \in JobIds

validate_status(s) == s \in {"queued", "processing", "completed", "failed"}

\* update(patch).eq("id", id): changes the record when there is one.
update_job(id, s) ==
    IF validate_status(s) /\ status[id] # "absent"
    THEN [status EXCEPT ![id] = s]
    ELSE status

\* ------------------------------------------------- download_signed_url
\* expected_bytes of a request: 0 stands for an absent (or zero) value.
ExpectedBytes == {0, 1000}

\* What the server does on one attempt: "early" is a transport error before
\* the temporary file exists (connection error, timeout, non-2xx status),
\* "mid" a transport error while the body is streamed to the file, "body" a
\* body of that many bytes streamed to the end.
BodySizes == {900, 989, 990, 995, 1000, 1010, 1011}
Early == [kind |-> "early", bytes |-> 0]
Mid == [kind |-> "mid", bytes |-> 0]
Body(n) == [kind |-> "body", bytes |-> n]
Outcomes == {Early, Mid} \cup {Body(n) : n \in BodySizes}

\* Time one attempt takes, in milliseconds.
Durations == {0, 20}

AbsDiff(a, b) == IF a >= b THEN a - b ELSE b - a

\* backoff with a delay that grows by the base instead of doubling.
backoffLinear(attempt) == RETRY_BASE_MS * (attempt + 1)

\* backoff(attempt), in milliseconds.
backoff(attempt) == RETRY_BASE_MS * (2 ^ attempt)

\* The size test with >= in place of >.
SizeMismatchStrict(total, expected) ==
    expected # 0 /\ 100 * AbsDiff(total, expected) >= expected

\* expected_bytes and abs(total - expected_bytes) / expected_bytes > 0.01
SizeMismatch(total, expected) ==
    expected # 0 /\ 100 * AbsDiff(total, expected) > expected

FetchIdle ==
    [phase |-> "idle", expected |-> 0, attempt |-> 0, path |-> FALSE,
     disk |-> 0, last_err |-> 0, err |-> "none", total |-> 0, clock |-> 0,
     sleeps |-> <<>>, ms |-> 0]

\* The locals of download_signed_url before the loop. path: tmp_path is set;
\* disk: temporary files of this call on disk; last_err: the attempt (counted
\* from 1) whose error it holds, 0 for None; clock: time since start.
FetchStart(expected) ==
    [FetchIdle EXCEPT !.phase = "loop", !.expected = expected]

\* The except clause with the file of the failed attempt left on disk.
OnRequestExceptionKeepsFile(f) ==
    [f EXCEPT !.last_err = f.attempt + 1,
              !.clock = @ + backoff(f.attempt),
              !.sleeps = Append(@, backoff(f.attempt)),
              !.attempt = @ + 1,
              !.path = FALSE]

\* except requests.RequestException: keep the error, sleep, count the
\* attempt, remove the temporary file if there is one.
OnRequestException(f) ==
    [f EXCEPT !.last_err = f.attempt + 1,
              !.clock = @ + backoff(f.attempt),
              !.sleeps = Append(@, backoff(f.attempt)),
              !.attempt = @ + 1,
              !.disk = IF f.path /\ f.disk > 0 THEN @ - 1 ELSE @,
              !.path = FALSE]

\* mkstemp: a new temporary file, tmp_path names it.
Mkstemp(f) == [f EXCEPT !.path = TRUE, !.disk = @ + 1]

\* One turn of the while loop with the server's outcome o, taking dur ms.
Attempt(f, o, dur) ==
    LET g == [f EXCEPT !.clock = @ + dur] IN
    IF o.kind = "early" THEN OnRequestException(g)
    ELSE IF o.kind = "mid" THEN OnRequestException(Mkstemp(g))
    ELSE LET h == [Mkstemp(g) EXCEPT !.total = o.bytes] IN
         IF SizeMismatch(o.bytes, f.expected)
         THEN [h EXCEPT !.phase = "raised", !.err = "mismatch"]
         ELSE [h EXCEPT !.phase = "returned", !.ms = h.clock]

\* After the loop: RuntimeError("Download failed after ... retries: last_err").
Exhausted(f) == [f EXCEPT !.phase = "raised", !.err = "exhausted"]

\* The whole call against a server that answers the attempts by script.
RECURSIVE RunFetch(_, _)
RunFetch(f, script) ==
    IF f.phase # "loop" THEN f
    ELSE IF f.attempt > RETRY_COUNT THEN Exhausted(f)
    ELSE IF script = <<>> THEN f
    ELSE RunFetch(Attempt(f, Head(script), 0), Tail(script))

FetchStates ==
    [phase : {"idle", "loop", "returned", "raised"}, expected : ExpectedBytes,
     attempt : 0..(RETRY_COUNT + 1), path : BOOLEAN, disk : 0..1,
     last_err : 0..(RETRY_COUNT + 1), err : {"none", "mismatch", "exhausted"},
     total : {0} \cup BodySizes, clock : Nat, sleeps : Seq(Nat), ms : Nat]

worker == <<MAX_CONCURRENT_JOBS, AUDIO_ONLY, status, sem, arrived, rpc,
            rjob, entry, job, resp, won, ledgerOps, tpc, escaped, run, disk,
            leaked, error, outputs>>

\* A turn of the loop of download_signed_url.
FetchAttempt ==
    /\ fetch.phase = "loop"
    /\ fetch.attempt <= RETRY_COUNT
    /\ \E o \in Outcomes, dur \in Durations : fetch' = Attempt(fetch, o, dur)
    /\ UNCHANGED worker

\* The loop has ended without a return.
FetchExhausted ==
    /\ fetch.phase = "loop"
    /\ fetch.attempt > RETRY_COUNT
    /\ fetch' = Exhausted(fetch)
    /\ UNCHANGED worker

\* The worker after start; no call of download_signed_url is taken on its own.
Init ==
    /\ InitWorker
    /\ fetch = FetchIdle

\* The worker after it has answered 401 to every request but the last, which
\* is still to come: one pipeline run at most.
RunInit ==
    /\ MAX_CONCURRENT_JOBS \in GateSizes
    /\ AUDIO_ONLY \in BOOLEAN
    /\ status \in {s \in [JobIds -> InitStatuses] : s["a"] = "queued"}
    /\ sem = MAX_CONCURRENT_JOBS
    /\ arrived = MaxReqs - 1
    /\ rpc = [r \in Reqs |-> IF r < MaxReqs THEN "done" ELSE "idle"]
    /\ rjob = [r \in Reqs |-> "none"]
    /\ entry = [r \in Reqs |-> "none"]
    /\ job = [r \in Reqs |-> "none"]
    /\ resp = [r \in Reqs |-> IF r < MaxReqs THEN "401" ELSE "none"]
    /\ won = [r \in Reqs |-> FALSE]
    /\ ledgerOps = [r \in Reqs |-> 0]
    /\ tpc = [r \in Reqs |-> "none"]
    /\ escaped = [r \in Reqs |-> FALSE]
    /\ run = [r \in Reqs |-> RunIdle]
    /\ disk = [r \in Reqs |-> {}]
    /\ leaked = {}
    /\ error = [j \in JobIds |-> NoError]
    /\ outputs = [j \in JobIds |-> NoOutputs]
    /\ fetch = FetchIdle

\* A call of download_signed_url starts, with any expected_bytes.
FetchInit ==
    /\ InitWorker
    /\ fetch \in {FetchStart(e) : e \in ExpectedBytes}

\* ------------------------------------------------------------- /enqueue
\* The answer of the checks of enqueue that precede claim_job; "claim" when
\* all of them pass.
Validate(auth, isJson, jid, url, ctype) ==
    IF ~auth THEN "401"
    ELSE IF ~isJson THEN "400"
    ELSE IF ctype = "nonstr" THEN "500"
    ELSE IF jid = "missing" \/ ~is_uuid(jid) THEN "400"
    ELSE IF ~url THEN "400"
    ELSE "claim"

\* A request arrives and runs up to the call of claim_job.
Enqueue(r) ==
    /\ rpc[r] = "idle"
    /\ r = arrived + 1
    /\ \E auth \in BOOLEAN, isJson \in BOOLEAN, jid \in JobIdInputs,
          url \in BOOLEAN, ctype \in ContentTypes :
         LET v == Validate(auth, isJson, jid, url, ctype) IN
         IF v = "claim"
         THEN /\ rpc' = [rpc EXCEPT ![r] = "update"]
              /\ rjob' = [rjob EXCEPT ![r] = jid]
              /\ entry' = [entry EXCEPT ![r] = status[jid]]
              /\ resp' = resp
         ELSE /\ rpc' = [rpc EXCEPT ![r] = "done"]
              /\ UNCHANGED <<rjob, entry>>
              /\ resp' = [resp EXCEPT ![r] = v]
    /\ arrived' = arrived + 1
    /\ UNCHANGED <<handlerFrame, status, sem, job, won, ledgerOps, tpc, escaped>>

\* claim_job, the conditional update: status = processing where id = job_id
\* and status = queued; a changed row is returned at once.
ClaimUpdate(r) ==
    /\ rpc[r] = "update"
    /\ ledgerOps' = [ledgerOps EXCEPT ![r] = @ + 1]
    /\ IF status[rjob[r]] = "queued"
       THEN /\ status' = [status EXCEPT ![rjob[r]] = "processing"]
            /\ won' = [won EXCEPT ![r] = TRUE]
            /\ job' = [job EXCEPT ![r] = "row"]
            /\ rpc' = [rpc EXCEPT ![r] = "returned"]
       ELSE /\ rpc' = [rpc EXCEPT ![r] = "reread"]
            /\ UNCHANGED <<status, won, job>>
    /\ UNCHANGED <<handlerFrame, sem, arrived, rjob, entry, resp, tpc, escaped>>

\* claim_job, the re-read: select where id = job_id and status = processing;
\* a row found is returned, else None.
ClaimReread(r) ==
    /\ rpc[r] = "reread"
    /\ ledgerOps' = [ledgerOps EXCEPT ![r] = @ + 1]
    /\ job' = [job EXCEPT ![r] =
                 IF status[rjob[r]] = "processing" THEN "row" ELSE "None"]
    /\ rpc' = [rpc EXCEPT ![r] = "returned"]
    /\ UNCHANGED <<handlerFrame, status, sem, arrived, rjob, entry, resp, won, tpc,
                   escaped>>

\* claim_job: a ledger call raises; the exception is logged and None returned.
ClaimRaises(r) ==
    /\ rpc[r] \in {"update", "reread"}
    /\ ledgerOps' = [ledgerOps EXCEPT ![r] = @ + 1]
    /\ job' = [job EXCEPT ![r] = "None"]
    /\ rpc' = [rpc EXCEPT ![r] = "returned"]
    /\ UNCHANGED <<handlerFrame, status, sem, arrived, rjob, entry, resp, won, tpc, escaped>>

\* Respond with the slot taken by the handler before it answers.
RespondGated(r) ==
    /\ rpc[r] = "returned"
    /\ rpc' = [rpc EXCEPT ![r] = "done"]
    /\ IF job[r] = "row"
       THEN /\ sem > 0
            /\ sem' = sem - 1
            /\ tpc' = [tpc EXCEPT ![r] = "mark"]
            /\ resp' = [resp EXCEPT ![r] = "202 claimed:true"]
       ELSE /\ UNCHANGED <<tpc, sem>>
            /\ resp' = [resp EXCEPT ![r] = "202 claimed:false"]
    /\ UNCHANGED <<handlerFrame, status, arrived, rjob, entry, job, won,
                   ledgerOps, escaped>>

\* Respond with the thread started before the result of claim_job is tested.
RespondAlwaysStarts(r) ==
    /\ rpc[r] = "returned"
    /\ rpc' = [rpc EXCEPT ![r] = "done"]
    /\ tpc' = [tpc EXCEPT ![r] = "waiting"]
    /\ resp' = [resp EXCEPT ![r] =
                  IF job[r] = "row" THEN "202 claimed:true"
                  ELSE "202 claimed:false"]
    /\ UNCHANGED <<handlerFrame, status, sem, arrived, rjob, entry, job, won,
                   ledgerOps, escaped>>

\* enqueue after claim_job: no job, answer claimed:false; else start the
\* pipeline thread and answer claimed:true.
Respond(r) ==
    /\ rpc[r] = "returned"
    /\ rpc' = [rpc EXCEPT ![r] = "done"]
    /\ IF job[r] = "row"
       THEN /\ tpc' = [tpc EXCEPT ![r] = "waiting"]
            /\ resp' = [resp EXCEPT ![r] = "202 claimed:true"]
       ELSE /\ tpc' = tpc
            /\ resp' = [resp EXCEPT ![r] = "202 claimed:false"]
    /\ UNCHANGED <<handlerFrame, status, sem, arrived, rjob, entry, job, won,
                   ledgerOps, escaped>>

\* --------------------------------------------------- process_job_async
taskFrame == <<cfgVars, reqVars, fetch>>

\* The downloads of the pipeline runs: the bytes field of the job (0 when it
\* has none) and what the server does, attempt by attempt.
PipelineCalls ==
    { <<0, <<Body(995), Early, Early, Early>> >>,
      <<1000, <<Body(995), Early, Early, Early>> >>,
      <<1000, <<Body(900), Early, Early, Early>> >>,
      <<1000, <<Early, Mid, Body(995), Early>> >>,
      <<1000, <<Mid, Mid, Body(900), Early>> >>,
      <<0, <<Early, Early, Early, Early>> >>,
      <<1000, <<Mid, Mid, Mid, Mid>> >> }

\* Length of the message of an exception, str(e): one longer than the cut.
MsgLens == {620}

\* str(e)[:500]
ERROR_LIMIT == 500

Min(a, b) == IF a <= b THEN a ELSE b

\* The prefix the handler of a stage puts before the message.
StagePrefix(stage) ==
    CASE stage = "download" -> "Download failed: "
      [] stage = "extract" -> "Audio extraction failed: "
      [] stage = "whisper" -> "Whisper failed: "
      [] stage = "upload" -> "Upload failed: "
      [] OTHER -> "Unexpected error: "

\* Number of characters of a prefix.
PrefixLen(prefix) ==
    CASE prefix = "Download failed: " -> 17
      [] prefix = "Audio extraction failed: " -> 25
      [] prefix = "Whisper failed: " -> 16
      [] prefix = "Upload failed: " -> 15
      [] prefix = "Unexpected error: " -> 18
      [] OTHER -> 0

\* The error string with the message not cut.
ErrorStringUncut(prefix, msgLen) ==
    [prefix |-> prefix, len |-> PrefixLen(prefix) + msgLen]

\* f"<prefix>{str(e)[:500]}": the prefix and the length of the whole string.
ErrorString(prefix, msgLen) ==
    [prefix |-> prefix, len |-> PrefixLen(prefix) + Min(msgLen, ERROR_LIMIT)]

\* The error column after update(patch).eq("id", id) with an error in patch.
update_error(id, e) ==
    IF status[id] # "absent" THEN [error EXCEPT ![id] = e] ELSE error

\* The outputs column after update(patch).eq("id", id) with outputs in patch.
update_outputs(id, o) ==
    IF status[id] # "absent" THEN [outputs EXCEPT ![id] = o] ELSE outputs

\* The log of a run after a call of update_job that returned.
Wrote(r, s) == [run EXCEPT ![r].writes = Append(@, s)]

\* Acquire with a gate that never blocks.
AcquireNoWait(r) ==
    /\ tpc[r] = "waiting"
    /\ sem' = IF sem > 0 THEN sem - 1 ELSE 0
    /\ tpc' = [tpc EXCEPT ![r] = "mark"]
    /\ UNCHANGED <<taskFrame, status, escaped, run, disk, leaked, error, outputs>>

\* with _CONCURRENCY: the thread blocks until a slot is free and takes it.
Acquire(r) ==
    /\ tpc[r] = "waiting"
    /\ sem > 0
    /\ sem' = sem - 1
    /\ tpc' = [tpc EXCEPT ![r] = "mark"]
    /\ UNCHANGED <<taskFrame, status, escaped, run, disk, leaked, error, outputs>>

\* update_job(job_id, {"status": "processing"}) at the start of the run.
MarkProcessing(r) ==
    /\ tpc[r] = "mark"
    /\ status' = update_job(rjob[r], "processing")
    /\ run' = Wrote(r, "processing")
    /\ tpc' = [tpc EXCEPT ![r] = "download"]
    /\ UNCHANGED <<taskFrame, sem, escaped, disk, leaked, error, outputs>>

\* Stage without the return of the handler: the run goes on after a failure.
StageGoesOn(r, at, next) ==
    /\ tpc[r] = at
    /\ \/ /\ tpc' = [tpc EXCEPT ![r] = next]
          /\ run' = [run EXCEPT ![r].ran = Append(@, at)]
       \/ /\ tpc' = [tpc EXCEPT ![r] = next]
          /\ run' = [run EXCEPT ![r].ran = Append(@, at), ![r].failed = at]
    /\ UNCHANGED <<taskFrame, status, sem, escaped, disk, leaked, error, outputs>>

\* A stage call that leaves no file: it returns and the run goes on to next,
\* or it raises and the run goes on to write the failure.
Stage(r, at, next) ==
    /\ tpc[r] = at
    /\ \/ /\ tpc' = [tpc EXCEPT ![r] = next]
          /\ run' = [run EXCEPT ![r].ran = Append(@, at)]
       \/ /\ tpc' = [tpc EXCEPT ![r] = "failwrite"]
          /\ run' = [run EXCEPT ![r].ran = Append(@, at), ![r].failed = at]
    /\ UNCHANGED <<taskFrame, status, sem, escaped, disk, leaked, error, outputs>>

\* 1) download_signed_url: on return media_path names the file on disk; when
\* it raises media_path stays None and the file the call left stays on disk.
Download(r) ==
    /\ tpc[r] = "download"
    /\ \E call \in PipelineCalls :
         LET script == call[2]
             f == RunFetch(FetchStart(call[1]), script) IN
         IF f.phase = "returned"
         THEN /\ tpc' = [tpc EXCEPT ![r] =
                           IF AUDIO_ONLY THEN "extract" ELSE "whisper"]
              /\ run' = [run EXCEPT ![r].ran = Append(@, "download"),
                                    ![r].media_path = TRUE,
                                    ![r].download_bytes = f.total,
                                    ![r].served = script[f.attempt + 1].bytes]
              /\ disk' = [disk EXCEPT ![r] = @ \cup {"mp4"}]
         ELSE /\ tpc' = [tpc EXCEPT ![r] = "failwrite"]
              /\ run' = [run EXCEPT ![r].ran = Append(@, "download"),
                                    ![r].failed = "download"]
              /\ disk' = [disk EXCEPT ![r] =
                            IF f.disk > 0 THEN @ \cup {"mp4"} ELSE @]
    /\ UNCHANGED <<taskFrame, status, sem, escaped, leaked, error, outputs>>

\* 2) extract_audio, when AUDIO_ONLY: it returns with audio_path naming the
\* .wav file; or ffmpeg is missing and it raises before mkstemp; or ffmpeg
\* fails or writes nothing and it raises with the .wav file made by mkstemp
\* on disk and audio_path still None.
ExtractAudio(r) ==
    /\ tpc[r] = "extract"
    /\ \/ /\ tpc' = [tpc EXCEPT ![r] = "whisper"]
          /\ run' = [run EXCEPT ![r].ran = Append(@, "extract"),
                                ![r].audio_path = TRUE]
          /\ disk' = [disk EXCEPT ![r] = @ \cup {"wav"}]
       \/ /\ tpc' = [tpc EXCEPT ![r] = "failwrite"]
          /\ run' = [run EXCEPT ![r].ran = Append(@, "extract"),
                                ![r].failed = "extract"]
          /\ \/ disk' = disk
             \/ disk' = [disk EXCEPT ![r] = @ \cup {"wav"}]
    /\ UNCHANGED <<taskFrame, status, sem, escaped, leaked, error, outputs>>

\* 3) whisper_to_vtt
Transcribe(r) == Stage(r, "whisper", "upload")

\* 4) upload_vtt
Upload(r) == Stage(r, "upload", "finalize")

\* Finalize with a patch that carries the status alone.
FinalizeStatusOnly(r) ==
    /\ tpc[r] = "finalize"
    /\ status' = update_job(rjob[r], "completed")
    /\ run' = [Wrote(r, "completed") EXCEPT ![r].ran = Append(@, "finalize")]
    /\ tpc' = [tpc EXCEPT ![r] = "exit"]
    /\ UNCHANGED <<taskFrame, sem, escaped, disk, leaked, error, outputs>>

\* 5) update_job(job_id, {"status": "completed", "outputs": outputs})
Finalize(r) ==
    /\ tpc[r] = "finalize"
    /\ status' = update_job(rjob[r], "completed")
    /\ outputs' = update_outputs(rjob[r],
                     [vtt |-> TRUE, download_bytes |-> run[r].download_bytes])
    /\ run' = [Wrote(r, "completed") EXCEPT ![r].ran = Append(@, "finalize")]
    /\ tpc' = [tpc EXCEPT ![r] = "exit"]
    /\ UNCHANGED <<taskFrame, sem, escaped, disk, leaked, error>>

\* WriteFailed with the ledger write left out.
WriteFailedNoWrite(r) ==
    /\ tpc[r] = "failwrite"
    /\ tpc' = [tpc EXCEPT ![r] = "exit"]
    /\ UNCHANGED <<taskFrame, status, sem, escaped, run, disk, leaked, error, outputs>>

\* The handler of a failed stage: update_job(job_id, {"status": "failed",
\* "error": "<stage> failed: ..."}) and return.
WriteFailed(r) ==
    /\ tpc[r] = "failwrite"
    /\ status' = update_job(rjob[r], "failed")
    /\ \E n \in MsgLens :
         error' = update_error(rjob[r],
                      ErrorString(StagePrefix(run[r].failed), n))
    /\ run' = Wrote(r, "failed")
    /\ tpc' = [tpc EXCEPT ![r] = "exit"]
    /\ UNCHANGED <<taskFrame, sem, escaped, disk, leaked, outputs>>

\* The outer except: update_job(job_id, {"status": "failed",
\* "error": "Unexpected error: ..."}).
Unexpected(r) ==
    /\ tpc[r] = "unexpected"
    /\ status' = update_job(rjob[r], "failed")
    /\ \E n \in MsgLens :
         error' = update_error(rjob[r], ErrorString("Unexpected error: ", n))
    /\ run' = Wrote(r, "failed")
    /\ tpc' = [tpc EXCEPT ![r] = "exit"]
    /\ UNCHANGED <<taskFrame, sem, escaped, disk, leaked, outputs>>

\* update_job re-raises what the ledger raised. Inside the try block the outer
\* except catches it; raised by the outer except itself, it leaves the
\* function through finally.
UpdateJobRaises(r) ==
    /\ tpc[r] \in {"mark", "finalize", "failwrite", "unexpected"}
    /\ run' = [Wrote(r, "raise") EXCEPT ![r].ran =
                 IF tpc[r] = "finalize" THEN Append(@, "finalize") ELSE @]
    /\ IF tpc[r] = "unexpected"
       THEN /\ tpc' = [tpc EXCEPT ![r] = "exit"]
            /\ escaped' = [escaped EXCEPT ![r] = TRUE]
       ELSE /\ tpc' = [tpc EXCEPT ![r] = "unexpected"]
            /\ escaped' = escaped
    /\ UNCHANGED <<taskFrame, status, sem, disk, leaked, error, outputs>>

\* finally: the files media_path and audio_path name are removed.
Removed(r) ==
    (IF run[r].media_path THEN {"mp4"} ELSE {})
        \cup (IF run[r].audio_path THEN {"wav"} ELSE {})

\* Exit with the slot released on the normal path only, not when an
\* exception is leaving the function.
ExitLeak(r) ==
    /\ tpc[r] = "exit"
    /\ leaked' = leaked \cup (disk[r] \ Removed(r))
    /\ disk' = [disk EXCEPT ![r] = {}]
    /\ run' = [run EXCEPT ![r] = RunIdle]
    /\ sem' = IF escaped[r] THEN sem ELSE sem + 1
    /\ tpc' = [tpc EXCEPT ![r] = "done"]
    /\ UNCHANGED <<taskFrame, status, escaped, error, outputs>>

\* finally, then the end of the with block: the files the locals name are
\* removed, the others stay on disk with no name left for them, the slot is
\* released, and the locals of the run are gone.
Exit(r) ==
    /\ tpc[r] = "exit"
    /\ leaked' = leaked \cup (disk[r] \ Removed(r))
    /\ disk' = [disk EXCEPT ![r] = {}]
    /\ run' = [run EXCEPT ![r] = RunIdle]
    /\ sem' = sem + 1
    /\ tpc' = [tpc EXCEPT ![r] = "done"]
    /\ UNCHANGED <<taskFrame, status, escaped, error, outputs>>

\* ------------------------------------------------------- specification
HandlerStep(r) ==
    \/ Enqueue(r)
    \/ ClaimUpdate(r)
    \/ ClaimReread(r)
    \/ Respond(r)

PipelineStep(r) ==
    \/ Acquire(r)
    \/ MarkProcessing(r)
    \/ Download(r)
    \/ ExtractAudio(r)
    \/ Transcribe(r)
    \/ Upload(r)
    \/ Finalize(r)
    \/ WriteFailed(r)
    \/ Unexpected(r)
    \/ Exit(r)

Next ==
    \E r \in Reqs :
        \/ HandlerStep(r)
        \/ PipelineStep(r)
        \/ ClaimRaises(r)
        \/ UpdateJobRaises(r)

Spec == Init /\ [][Next]_vars

\* The worker serving its last request alone.
RunSpec == RunInit /\ [][Next]_vars

\* The run of the worker while every ledger call succeeds, under fair
\* scheduling of the pipeline threads.
LivePipelineStep(r) ==
    \/ Acquire(r)
    \/ MarkProcessing(r)
    \/ Download(r)
    \/ ExtractAudio(r)
    \/ Transcribe(r)
    \/ Upload(r)
    \/ Finalize(r)
    \/ WriteFailed(r)
    \/ Exit(r)

LiveNext ==
    \E r \in Reqs :
        \/ HandlerStep(r)
        \/ LivePipelineStep(r)

LiveSpec ==
    /\ Init
    /\ [][LiveNext]_vars
    /\ \A r \in Reqs : WF_vars(LivePipelineStep(r))

\* download_signed_url on its own, against any server.
FetchNext == FetchAttempt \/ FetchExhausted

FetchSpec == FetchInit /\ [][FetchNext]_vars

\* -------------------------------------------------------------- claims
Claimed(r) == resp[r] = "202 claimed:true"
NotClaimed(r) == resp[r] = "202 claimed:false"
Holders == {r \in Reqs : tpc[r] \in Holding}
Started(j) == {r \in Reqs : rjob[r] = j /\ tpc[r] # "none"}
\* The requests that called claim_job on j while its status was queued.
Racers(j) == {r \in Reqs : rjob[r] = j /\ entry[r] = "queued"}

JobTerminal(r) == rjob[r] # "none" /\ status[rjob[r]] \in Terminal

\* C1: of the requests that call claim_job on one job id while it is queued,
\* once all are answered and one of them made the transition, exactly one is
\* answered claimed:true and every other one claimed:false.
C1_ExactlyOneOwned ==
    \A j \in JobIds :
        ( /\ \A r \in Racers(j) : rpc[r] = "done"
          /\ \E r \in Racers(j) : won[r] )
        => /\ Cardinality({r \in Racers(j) : Claimed(r)}) = 1
           /\ \A r \in Racers(j) : Claimed(r) \/ NotClaimed(r)

\* C2: claim_job returns a row (and enqueue answers claimed:true) only to the
\* call whose own conditional update made the queued -> processing transition;
\* a call on a job that is not queued, or has no record, gets None.
C2_OwnedOnlyByWinner ==
    \A r \in Reqs : (job[r] = "row" \/ Claimed(r)) => won[r]

\* C3: at most one pipeline thread is ever started for a job id.
C3_OnePipelinePerJob ==
    \A j \in JobIds : Cardinality(Started(j)) <= 1

\* C4: no step sets a status back to queued, and no step takes a completed or
\* failed job to a non-terminal status.
C4_StatusForwardOnly ==
    [][\A j \in JobIds :
          /\ (status[j] # "queued" => status'[j] # "queued")
          /\ (status[j] \in Terminal => status'[j] \in Terminal)]_vars

\* C5: at every instant at most MAX_CONCURRENT_JOBS pipeline threads are
\* inside the gated section.
C5_AtMostNInside ==
    Cardinality(Holders) <= MAX_CONCURRENT_JOBS

\* N threads are inside and one more, started, is kept waiting.
C5_Witness ==
    /\ Cardinality(Holders) = MAX_CONCURRENT_JOBS
    /\ \E r \in Reqs : tpc[r] = "waiting"

\* C6: the free slots and the threads inside always add up to N, so every
\* thread that leaves, on any path, has given back exactly its one slot, and
\* with no thread inside all N slots are free.
C6_SlotsRestored ==
    /\ sem + Cardinality(Holders) = MAX_CONCURRENT_JOBS
    /\ (Holders = {} => sem = MAX_CONCURRENT_JOBS)

\* A run has ended with an exception leaving the function and one has ended
\* normally or is still to come; all slots are free again.
C6_Witness ==
    /\ \E r \in Reqs : tpc[r] = "done" /\ escaped[r]
    /\ Holders = {}
    /\ sem = MAX_CONCURRENT_JOBS

\* C7: a request whose claim_job has returned can always answer at once,
\* whatever the number of free slots, and a thread is inside the gate only
\* after it was started by a granted claim.
C7_AckNeverWaits ==
    \A r \in Reqs :
        /\ rpc[r] = "returned" => ENABLED Respond(r)
        /\ tpc[r] \in Holding => job[r] = "row"

\* All slots are held by another pipeline while a later claim has been
\* answered claimed:true and its thread waits for a slot.
C7_Witness ==
    \E r1, r2 \in Reqs :
        /\ r1 # r2
        /\ sem = 0
        /\ tpc[r1] \in Holding
        /\ Claimed(r2)
        /\ tpc[r2] = "waiting"

\* C8: every request that reaches claim_job is answered 202, and claimed:false
\* unless its own conditional update made the transition.
C8_Always202 ==
    \A r \in Reqs :
        (rpc[r] = "done" /\ rjob[r] # "none")
        => /\ Claimed(r) \/ NotClaimed(r)
           /\ (~won[r] => NotClaimed(r))

\* C9: a request answered 401 or 400 made no ledger call; a request answered
\* claimed:false started no thread; and a handler step that changes the ledger
\* is the step of a request that goes on to answer claimed:true.
C9_NoSideEffect ==
    /\ [](\A r \in Reqs :
            /\ resp[r] \in {"401", "400"} => ledgerOps[r] = 0 /\ tpc[r] = "none"
            /\ NotClaimed(r) => job[r] = "None" /\ tpc[r] = "none")
    /\ [][\A r \in Reqs :
            (rpc'[r] # rpc[r] /\ status' # status) => job'[r] = "row"]_vars

\* A request was rejected without a ledger call and another was answered
\* claimed:false after its update and its re-read both found nothing.
C9_Witness ==
    \E r1, r2 \in Reqs :
        /\ resp[r1] \in {"401", "400"}
        /\ NotClaimed(r2)
        /\ ledgerOps[r2] = 2

\* C10: again and again every job whose claim was granted has status
\* completed or failed; so each granted claim is followed by a state in
\* which its job is completed or failed (Claimed(r) ~> JobTerminal(r)).
C10_ClaimedReachesTerminal ==
    []<>(\A r \in Reqs : Claimed(r) => JobTerminal(r))

\* Two jobs were claimed, one had to wait for the slot of the other, and both
\* runs have ended with their jobs in a terminal status.
C10_Witness ==
    \E r1, r2 \in Reqs :
        /\ r1 # r2
        /\ rjob[r1] # rjob[r2]
        /\ Claimed(r1) /\ Claimed(r2)
        /\ tpc[r1] = "done" /\ tpc[r2] = "done"
        /\ JobTerminal(r1)
        /\ status[rjob[r2]] = "failed"

RECURSIVE SumSeq(_)
SumSeq(q) == IF q = <<>> THEN 0 ELSE Head(q) + SumSeq(Tail(q))

\* C11: a call that returns after k failed attempts has slept
\* RETRY_BASE_MS * 2^i after failed attempt i = 0..k-1, reports an elapsed
\* time of at least the sum of these delays, and k is at most RETRY_COUNT:
\* the call gives up only after RETRY_COUNT + 1 failed attempts.
C11_BackoffThenSuccess ==
    /\ fetch.phase = "returned" =>
         /\ fetch.attempt <= RETRY_COUNT
         /\ fetch.sleeps = [i \in 1..fetch.attempt |-> RETRY_BASE_MS * 2 ^ (i - 1)]
         /\ fetch.ms >= SumSeq(fetch.sleeps)
    /\ (fetch.phase = "raised" /\ fetch.err = "exhausted") =>
         fetch.attempt = RETRY_COUNT + 1

\* The server failed twice, then the call returned.
C11_Witness ==
    /\ fetch.phase = "returned"
    /\ fetch.attempt = 2
    /\ fetch.ms >= 1500

\* C12: a fully streamed body is accepted exactly when expected_bytes is absent
\* or 100 * |total - expected_bytes| <= expected_bytes.
C12_OnePercent ==
    /\ fetch.phase = "returned" =>
         \/ fetch.expected = 0
         \/ 100 * AbsDiff(fetch.total, fetch.expected) <= fetch.expected
    /\ (fetch.phase = "raised" /\ fetch.err = "mismatch") =>
         /\ fetch.expected # 0
         /\ 100 * AbsDiff(fetch.total, fetch.expected) > fetch.expected

\* 995 bytes of an expected 1000 were accepted.
C12_Witness ==
    /\ fetch.phase = "returned"
    /\ fetch.expected = 1000
    /\ fetch.total = 995

\* C13: a size mismatch ends the call only when no retry remains.
C13_MismatchIsRetried ==
    (fetch.phase = "raised" /\ fetch.err = "mismatch") =>
        fetch.attempt >= RETRY_COUNT

\* C20: the call makes at most RETRY_COUNT + 1 attempts and, unless it has
\* ended, can take a step; when every attempt failed it raises with the error
\* of the last attempt; and at the start of every attempt no temporary file
\* of an earlier attempt is on disk.
C20_BoundedRetries ==
    /\ fetch.attempt <= RETRY_COUNT + 1
    /\ fetch.phase = "loop" => ENABLED FetchNext
    /\ fetch.phase = "loop" => fetch.disk = 0 /\ ~fetch.path
    /\ (fetch.phase = "raised" /\ fetch.err = "exhausted") =>
         /\ fetch.attempt = RETRY_COUNT + 1
         /\ fetch.last_err = RETRY_COUNT + 1
         /\ fetch.disk = 0

\* Every attempt failed, the last one while streaming, and the call raised.
C20_Witness ==
    /\ fetch.phase = "raised"
    /\ fetch.err = "exhausted"
    /\ Len(fetch.sleeps) = RETRY_COUNT + 1

\* ------------------------------------------------------ one pipeline run
\* The stages of a run in the order the code calls them.
StageOrder ==
    IF AUDIO_ONLY
    THEN <<"download", "extract", "whisper", "upload", "finalize">>
    ELSE <<"download", "whisper", "upload", "finalize">>

IsPrefix(s, t) == Len(s) <= Len(t) /\ \A i \in 1..Len(s) : s[i] = t[i]

Range(s) == {s[i] : i \in 1..Len(s)}

StagePrefixes ==
    {StagePrefix(st) : st \in {"download", "extract", "whisper", "upload"}}

\* C14: when a pipeline run ends, by success, stage failure or ledger
\* failure, no temporary file that the run created is left on disk.
C14_NoTempFilesLeft == leaked = {}

\* C15: the stages of a run are called in the order download, audio
\* extraction (when AUDIO_ONLY), transcribe, upload, finalize; once a stage has
\* failed no later stage is called; and the write of the failure sets the
\* job's status to failed with an error that begins with the prefix of the
\* stage that failed.
C15_StagesInOrder ==
    /\ [](\A r \in Reqs :
            /\ IsPrefix(run[r].ran, StageOrder)
            /\ run[r].failed # "none" =>
                 /\ tpc[r] \in {"failwrite", "unexpected", "exit"}
                 /\ run[r].ran # <<>>
                 /\ run[r].ran[Len(run[r].ran)] = run[r].failed)
    /\ [][\A r \in Reqs :
            tpc[r] = "failwrite" /\ tpc'[r] = "exit" =>
                /\ status'[rjob[r]] = "failed"
                /\ error'[rjob[r]].prefix = StagePrefix(run[r].failed)
                /\ error'[rjob[r]].prefix \in StagePrefixes]_vars

C15_Witness ==
    \E r \in Reqs :
        /\ tpc[r] = "exit"
        /\ AUDIO_ONLY
        /\ run[r].failed = "whisper"
        /\ run[r].ran = <<"download", "extract", "whisper">>
        /\ status[rjob[r]] = "failed"
        /\ error[rjob[r]].prefix = "Whisper failed: "

\* C16: before each stage starts the run has written the status of that
\* stage: downloading before the download, transcribing before the
\* transcription.
C16_StatusPerStage ==
    \A r \in Reqs :
        /\ tpc[r] = "download" => "downloading" \in Range(run[r].writes)
        /\ tpc[r] = "whisper" => "transcribing" \in Range(run[r].writes)

\* C17: a run in which every stage and every ledger write succeeds writes one
\* terminal status, completed, and never failed; that write sets outputs.vtt
\* and sets the download_bytes of the metrics in outputs to the bytes of the
\* download attempt that succeeded; and no job is completed with outputs.vtt
\* unset.
C17_CompletedOnce ==
    /\ [](\A j \in JobIds : status[j] = "completed" => outputs[j].vtt)
    /\ [](\A r \in Reqs :
            tpc[r] = "exit" /\ run[r].failed = "none"
                /\ "raise" \notin Range(run[r].writes) =>
                    run[r].writes = <<"processing", "completed">>)
    /\ [][\A r \in Reqs :
            tpc[r] = "finalize" /\ tpc'[r] = "exit"
                /\ "raise" \notin Range(run'[r].writes) =>
                    /\ status'[rjob[r]] = "completed"
                    /\ outputs'[rjob[r]].vtt
                    /\ run[r].served > 0
                    /\ outputs'[rjob[r]].download_bytes = run[r].served]_vars

C17_Witness ==
    \E r \in Reqs :
        /\ tpc[r] = "exit"
        /\ run[r].writes = <<"processing", "completed">>
        /\ status[rjob[r]] = "completed"
        /\ outputs[rjob[r]].vtt
        /\ outputs[rjob[r]].download_bytes = 995

\* C18 as stated: every error string written to the ledger has at most 500
\* characters in all.
C18_ErrorAtMost500 == \A j \in JobIds : error[j].len <= 500

\* C18: in every error string written to the ledger the part after the
\* prefix has at most 500 characters, and the string at most 525 in all.
C18_MessageCutTo500 ==
    \A j \in JobIds :
        /\ error[j].len - PrefixLen(error[j].prefix) <= ERROR_LIMIT
        /\ error[j].len <= ERROR_LIMIT + 25

C18_Witness ==
    \E j \in JobIds :
        /\ error[j].prefix = "Audio extraction failed: "
        /\ error[j].len = 525

\* C19: after a ledger write of a run has failed the run attempts no other
\* ledger write, and the failure does not leave the pipeline function.
C19_FailedWriteSwallowed ==
    \A r \in Reqs :
        /\ ~escaped[r]
        /\ \A i \in 1..(Len(run[r].writes) - 1) : run[r].writes[i] # "raise"

====
